---- MODULE Spec2Model ----
(***************************************************************************)
(* A model of the Merkle Sum Sparse Merkle Tree of rust-taro:              *)
(*   src/src/tree.rs        MSSMTree (new, insert, delete, update,          *)
(*                          lookup, prove)                                  *)
(*   src/src/proof.rs       Proof::verify                                   *)
(*   src/src/mssmt/node.rs  LeafNode, DiskBranchNode, BranchNode, hashing   *)
(*   src/src/memory_db.rs   MemoryDatabase (HashMap<NodeHash, Node>)        *)
(*                                                                         *)
(* Scaling.  The tree of the source has 256 levels below the root.  The    *)
(* model has Depth levels; every literal of the source is kept relative to *)
(* it: 256 is Depth, 255 is Depth - 1, 254 is Depth - 2, 257 is Depth + 1. *)
(*                                                                         *)
(* Hashing.  SHA-256 is modelled as an injective function: a digest is     *)
(* represented by the tuple of the fields that were fed to the hasher, so   *)
(* two digests are equal exactly when their preimages are.  A leaf digest   *)
(* is <<data, sum>>, a branch digest is <<left, right, sum>>.               *)
(*                                                                         *)
(* Sums are u64 in the source and are added with `+`.  u64::MAX is scaled   *)
(* to U64_MAX; an addition that exceeds it wraps or panics, as the build    *)
(* decides.                                                                *)
(***************************************************************************)
EXTENDS Integers, Sequences, FiniteSets, TLC

\* Number of levels between the root and the leaves (256 in the source).
Depth == 4
\* Number of mutations (insert / update / delete) of one behaviour.
MaxOps == 2
\* Largest sum given to an insert.
MaxSum == 1
\* Number of raw store calls made before the tree is constructed (SpecStore).
MaxStoreOps == 2
\* Number of calls made on the prototype tree (SpecProto).
MaxProtoOps == 4

\* Option<T>
None == <<>>
Some(x) == <<x>>
IsSome(o) == o # <<>>
Unwrap(o) == o[1]

\* A key is addressed bit by bit; it is modelled by its bits 0 .. Depth-1.
Keys == [0 .. Depth - 1 -> BOOLEAN]
bit_index(key, i) == key[i]

DataVals == {<<>>, <<1>>}
SumVals == 0 .. MaxSum

(***************************************************************************)
(* Nodes (mssmt/node.rs).                                                  *)
(***************************************************************************)
LeafNode_new(data, sum) == [kind |-> "Leaf", data |-> data, sum |-> sum]

\* BranchNode::parent_hash: sha256(left || right || sum.to_be_bytes())
parent_hash(left, right, sum) == <<left, right, sum>>

\* The field _hash of DiskBranchNode is never read: node_hash() recomputes
\* the digest from the other three fields.  It is left out of the record.
DiskBranchNode_new(sum, left, right) ==
    [kind |-> "Branch", sum |-> sum, left |-> left, right |-> right]

\* DiskBranchNode::l_child, r_child
l_child(n) == n.left
r_child(n) == n.right

RECURSIVE node_hash(_)
\* MSSMTNode::node_hash for LeafNode, DiskBranchNode, Node and BranchNode;
\* a BranchNode owns its children and hashes their hashes.
node_hash(n) ==
    IF n.kind = "Leaf" THEN <<n.data, n.sum>>
    ELSE IF n.kind = "Branch" THEN parent_hash(n.left, n.right, n.sum)
    ELSE parent_hash(node_hash(n.left), node_hash(n.right), n.sum)

\* MSSMTNode::node_sum
node_sum(n) == n.sum

\* Node::default()
Node_default == LeafNode_new(<<>>, 0)

\* BranchNode::new(left, right) as it stands: the branch that owns its
\* children.  Its field hash is read by the conversion below only, into a
\* field that is never read; it is left out of the record.
BranchNode_owning(left, right) ==
    [kind |-> "BranchNode", sum |-> node_sum(left) + node_sum(right),
     left |-> left, right |-> right]

\* From<BranchNode> for DiskBranchNode as it would be with the children
\* taken in the other order.
DiskBranchNode_from_Swapped(value) ==
    IF value.kind = "BranchNode"
    THEN [kind |-> "Branch", sum |-> value.sum,
          left |-> node_hash(value.right), right |-> node_hash(value.left)]
    ELSE value

\* From<BranchNode> for DiskBranchNode, and From<T> for T: `.into()`
DiskBranchNode_from(value) ==
    IF value.kind = "BranchNode"
    THEN [kind |-> "Branch", sum |-> value.sum,
          left |-> node_hash(value.left), right |-> node_hash(value.right)]
    ELSE value

\* BranchNode::new(left, right) followed by From<BranchNode> for DiskBranchNode
BranchNode_new(left, right) == DiskBranchNode_from(BranchNode_owning(left, right))

(***************************************************************************)
(* MemoryDatabase (memory_db.rs): one map from NodeHash to Node.           *)
(* The outcome of a call is Ok(value), Err(error), or a panic of the       *)
(* thread.                                                                 *)
(***************************************************************************)
MemoryDatabase_new == <<>>

MapInsert(m, k, v) == [h \in (DOMAIN m) \cup {k} |-> IF h = k THEN v ELSE m[h]]
MapRemove(m, k) == [h \in (DOMAIN m) \ {k} |-> m[h]]

delete_branch(db, hash) == MapRemove(db, hash)
delete_leaf(db, hash) == MapRemove(db, hash)
\* insert(branch.node_hash(), Node::Branch(branch.into()))
insert_branch(db, branch) ==
    MapInsert(db, node_hash(branch), DiskBranchNode_from(branch))
insert_leaf(db, leaf) == MapInsert(db, node_hash(leaf), leaf)

fetch_branch(db, hash) ==
    IF hash \in DOMAIN db
    THEN (IF db[hash].kind = "Branch" THEN Some(db[hash]) ELSE None)
    ELSE None

\* fetch_leaf as it would be if it returned whatever entry sits under the
\* hash.
fetch_leaf_Untyped(db, hash) ==
    IF hash \in DOMAIN db THEN Some(db[hash]) ELSE None

fetch_leaf(db, hash) ==
    IF hash \in DOMAIN db
    THEN (IF db[hash].kind = "Leaf" THEN Some(db[hash]) ELSE None)
    ELSE None

(***************************************************************************)
(* The Result of the store's reads.  RwLock::read returns Err on a          *)
(* poisoned lock, which `?` turns into PoisonedLock.  A lock is poisoned    *)
(* when a thread panics while it holds the write guard; the guard is held   *)
(* within the four writing methods only, which call HashMap::insert and     *)
(* HashMap::remove, so no panic of the program (the overflow of tree.rs,    *)
(* the unwrap of proof.rs) happens under it.                               *)
(***************************************************************************)
Poisoned == FALSE

Ok(x) == [kind |-> "Ok", value |-> x]
Err(e) == [kind |-> "Err", error |-> e]
Panic == [kind |-> "Panic"]

TreeStore_fetch_branch(db, hash) ==
    IF Poisoned THEN Err("PoisonedLock") ELSE Ok(fetch_branch(db, hash))

TreeStore_fetch_leaf(db, hash) ==
    IF Poisoned THEN Err("PoisonedLock") ELSE Ok(fetch_leaf(db, hash))

(***************************************************************************)
(* MSSMTree (tree.rs).  A tree value is a record                           *)
(*   [database, root, empty_tree]                                          *)
(* empty_tree is a sequence; the source's empty_tree[i] is EmptyAt(t, i).   *)
(***************************************************************************)
EmptyAt(self, i) == self.empty_tree[i + 1]

RECURSIVE EmptyChain(_)
\* The vector built by the loop of MSSMTree::new, leaf first: the default
\* node followed by n branches, each over two copies of the one before.
EmptyChain(n) ==
    IF n = 0 THEN <<Node_default>>
    ELSE LET below == EmptyChain(n - 1)
             node == below[Len(below)]
         IN Append(below,
                   DiskBranchNode_new(0, node_hash(node), node_hash(node)))

Reverse(s) == [i \in 1 .. Len(s) |-> s[Len(s) + 1 - i]]

\* MSSMTree::new as it would be if it persisted the table it materialises.
MSSMTree_new_Persisting(db) ==
    LET empty_tree == Reverse(EmptyChain(Depth))
    IN [database |-> insert_leaf(db, empty_tree[Depth + 1]),
        root |-> node_hash(empty_tree[1]),
        empty_tree |-> empty_tree]

\* MSSMTree::new as it would be without the reversal of the vector.
MSSMTree_new_Unreversed(db) ==
    LET empty_tree == EmptyChain(Depth)
    IN [database |-> db,
        root |-> node_hash(empty_tree[1]),
        empty_tree |-> empty_tree]

MSSMTree_new(db) ==
    LET empty_tree == Reverse(EmptyChain(Depth))
    IN [database |-> db,
        root |-> node_hash(empty_tree[1]),
        empty_tree |-> empty_tree]

get_children_hash(self, node, idx) ==
    IF IsSome(node) /\ node_hash(Unwrap(node)) # node_hash(EmptyAt(self, idx))
    THEN <<Unwrap(node).left, Unwrap(node).right>>
    ELSE LET hash == node_hash(EmptyAt(self, idx + 1)) IN <<hash, hash>>

(***************************************************************************)
(* The engine is generic over TreeStore, whose every method returns a       *)
(* Result, and adds u64 sums with `+`.  What a call of the engine meets is  *)
(* an environment                                                          *)
(*   [fail_at, overflow_checks]                                            *)
(* fail_at is the position, among the store calls of this engine call, of   *)
(* the one that returns Err (0: none does); overflow_checks is the build    *)
(* setting that makes an overflowing `+` panic instead of wrap.            *)
(* The locals of an engine call are kept in one record                     *)
(*   [db, log, env, st, node, parents, siblings, current_update, proof]    *)
(* db is the store as the call has left it so far, log the store calls      *)
(* made so far, st is "Run" until the call returns early ("Err") or the     *)
(* thread panics ("Panic").                                                *)
(***************************************************************************)
\* u64::MAX, scaled
U64_MAX == 65535

\* The error a failing store returns (TreeStore::Error).
StoreError == "StoreError"

\* The environment of a tree over the in-memory store in the tests.
Quiet == [fail_at |-> 0, overflow_checks |-> TRUE]

Begin(self, env) ==
    [db |-> self.database, log |-> <<>>, env |-> env, st |-> "Run",
     node |-> self.root, parents |-> <<>>, siblings |-> <<>>,
     current_update |-> Node_default, proof |-> <<>>]

\* `self.database.<name>(arg)?`, where db2 is the store after the call when
\* it succeeds: nothing is called once the engine call has ended, the call
\* is made otherwise, and `?` returns its error.
Call(c, name, arg, db2) ==
    IF c.st # "Run" THEN c
    ELSE IF Len(c.log) + 1 = c.env.fail_at
         THEN [c EXCEPT !.log = Append(@, <<name, arg>>), !.st = "Err"]
         ELSE [c EXCEPT !.log = Append(@, <<name, arg>>), !.db = db2]

\* The descent as it would be if it took each branch it reads out of the
\* store.
WalkStep_Evicting(self, key, w, idx) ==
    LET c == Call(w, "delete_branch", w.node, delete_branch(w.db, w.node))
        disk_node == fetch_branch(w.db, w.node)
        ch == get_children_hash(self, disk_node, idx)
        b == bit_index(key, idx)
    IN IF c.st # "Run" THEN c
       ELSE [c EXCEPT !.node = IF b THEN ch[1] ELSE ch[2],
                      !.parents = Append(@, w.node),
                      !.siblings = Append(@, IF b THEN ch[2] ELSE ch[1])]

\* One iteration of the descent loops of insert and lookup.
WalkStep(self, key, w, idx) ==
    LET c == Call(w, "fetch_branch", w.node, w.db)
        disk_node == fetch_branch(w.db, w.node)
        ch == get_children_hash(self, disk_node, idx)
        b == bit_index(key, idx)
    IN IF c.st # "Run" THEN c
       ELSE [c EXCEPT !.node = IF b THEN ch[1] ELSE ch[2],
                      !.parents = Append(@, w.node),
                      !.siblings = Append(@, IF b THEN ch[2] ELSE ch[1])]

RECURSIVE Walk(_, _, _, _)
\* The state of a descent loop after its iterations idx = 0 .. n-1.
Walk(self, key, n, env) ==
    IF n = 0 THEN Begin(self, env)
    ELSE WalkStep(self, key, Walk(self, key, n - 1, env), n - 1)

\* The leaf write as it would be if it dropped the Result of its store call.
InsertLeafWrite_Dropping(self, leaf, d) ==
    LET c == IF node_hash(leaf) # node_hash(EmptyAt(self, Depth - 1))
             THEN Call(d, "insert_leaf", node_hash(leaf), insert_leaf(d.db, leaf))
             ELSE Call(d, "delete_leaf", node_hash(leaf),
                       delete_leaf(d.db, node_hash(leaf)))
    IN IF d.st # "Run" THEN d
       ELSE [c EXCEPT !.st = "Run", !.current_update = leaf]

\* insert, lines 94-99: the leaf is written, or the empty leaf removed.
InsertLeafWrite(self, leaf, d) ==
    LET c == IF node_hash(leaf) # node_hash(EmptyAt(self, Depth - 1))
             THEN Call(d, "insert_leaf", node_hash(leaf), insert_leaf(d.db, leaf))
             ELSE Call(d, "delete_leaf", node_hash(leaf),
                       delete_leaf(d.db, node_hash(leaf)))
    IN IF c.st # "Run" THEN c ELSE [c EXCEPT !.current_update = leaf]

\* The ascent step with the two branch writes in the other order.
AscentStep_InsertFirst(self, key, a, idx) ==
    IF a.st # "Run" THEN a ELSE
    LET sibling == a.siblings[idx + 1]
        cur == node_hash(a.current_update)
        left == IF bit_index(key, idx) THEN cur ELSE sibling
        right == IF bit_index(key, idx) THEN sibling ELSE cur
        c1 == Call(a, "fetch_branch", sibling, a.db)
        sib_node == fetch_branch(a.db, sibling)
        plus == IF IsSome(sib_node)
                THEN node_sum(a.current_update) + node_sum(Unwrap(sib_node))
                ELSE node_sum(a.current_update)
        sum == plus % (U64_MAX + 1)
        c2 == IF c1.st = "Run" /\ plus > U64_MAX /\ a.env.overflow_checks
              THEN [c1 EXCEPT !.st = "Panic"] ELSE c1
        new_node == DiskBranchNode_new(sum, left, right)
        c3 == IF node_hash(new_node) # node_hash(EmptyAt(self, idx))
              THEN Call(c2, "insert_branch", node_hash(new_node),
                        insert_branch(c2.db, new_node))
              ELSE c2
        c4 == IF a.parents[idx] # node_hash(EmptyAt(self, idx - 1))
              THEN Call(c3, "delete_branch", a.parents[idx + 1],
                        delete_branch(c3.db, a.parents[idx + 1]))
              ELSE c3
    IN IF c4.st # "Run" THEN c4 ELSE [c4 EXCEPT !.current_update = new_node]

\* One iteration of the ascent loop of insert (lines 103-125).
AscentStep(self, key, a, idx) ==
    IF a.st # "Run" THEN a ELSE
    LET sibling == a.siblings[idx + 1]
        cur == node_hash(a.current_update)
        left == IF bit_index(key, idx) THEN cur ELSE sibling
        right == IF bit_index(key, idx) THEN sibling ELSE cur
        c1 == Call(a, "fetch_branch", sibling, a.db)
        sib_node == fetch_branch(a.db, sibling)
        plus == IF IsSome(sib_node)
                THEN node_sum(a.current_update) + node_sum(Unwrap(sib_node))
                ELSE node_sum(a.current_update)
        sum == plus % (U64_MAX + 1)
        c2 == IF c1.st = "Run" /\ plus > U64_MAX /\ a.env.overflow_checks
              THEN [c1 EXCEPT !.st = "Panic"] ELSE c1
        c3 == IF a.parents[idx] # node_hash(EmptyAt(self, idx - 1))
              THEN Call(c2, "delete_branch", a.parents[idx + 1],
                        delete_branch(c2.db, a.parents[idx + 1]))
              ELSE c2
        new_node == DiskBranchNode_new(sum, left, right)
        c4 == IF node_hash(new_node) # node_hash(EmptyAt(self, idx))
              THEN Call(c3, "insert_branch", node_hash(new_node),
                        insert_branch(c3.db, new_node))
              ELSE c3
    IN IF c4.st # "Run" THEN c4 ELSE [c4 EXCEPT !.current_update = new_node]

\* The last index of the ascent loop: `for idx in (1..=255).rev()`.
AscentLast == 1

RECURSIVE Ascent(_, _, _, _)
\* The state of the ascent loop after its iterations Depth-1 down to idx.
Ascent(self, key, leafw, idx) ==
    IF idx > Depth - 1 THEN leafw
    ELSE AscentStep(self, key, Ascent(self, key, leafw, idx + 1), idx)

\* What an engine call returns, and the panic of its thread.
Outcome(c, value) ==
    IF c.st = "Run" THEN Ok(value)
    ELSE IF c.st = "Err" THEN Err(StoreError) ELSE Panic

\* Tree::insert as it would be if it assigned the root as it went, before
\* the outcome of its store calls is known.
insert_in_PublishingEarly(self, key, data, sum, env) ==
    LET leaf == LeafNode_new(data, sum)
        d == Walk(self, key, Depth, env)
        w == InsertLeafWrite(self, leaf, d)
        a == Ascent(self, key, w, AscentLast)
    IN [tree |-> [database |-> a.db,
                  root |-> node_hash(a.current_update),
                  empty_tree |-> self.empty_tree],
        log |-> a.log,
        ret |-> Outcome(a, <<>>)]

\* Tree::insert in an environment.  The result carries the tree after the
\* call, the store calls made, in order, and what the call returned.
insert_in(self, key, data, sum, env) ==
    LET leaf == LeafNode_new(data, sum)
        d == Walk(self, key, Depth, env)
        w == InsertLeafWrite(self, leaf, d)
        a == Ascent(self, key, w, AscentLast)
    IN [tree |-> [database |-> a.db,
                  root |-> IF a.st = "Run" THEN node_hash(a.current_update)
                           ELSE self.root,
                  empty_tree |-> self.empty_tree],
        log |-> a.log,
        ret |-> Outcome(a, <<>>)]

\* Tree::insert
insert(self, key, data, sum) == insert_in(self, key, data, sum, Quiet)

\* Tree::delete
delete(self, key) == insert(self, key, <<>>, 0)

\* Tree::update
update(self, key, data, sum) == insert(self, key, data, sum)

\* The last read of lookup as it would be if it took the leaf out of the
\* store.
LookupLeaf_Take(w) ==
    LET c == Call(w, "delete_leaf", w.node, delete_leaf(w.db, w.node))
    IN [database |-> c.db, log |-> c.log,
        ret |-> Outcome(c, fetch_leaf(w.db, w.node))]

\* lookup, line 147: the read of the leaf after the descent, and the return.
\* The result carries the store after the call, the store calls made, and
\* what the call returned.
LookupLeaf(w) ==
    LET c == Call(w, "fetch_leaf", w.node, w.db)
    IN [database |-> c.db, log |-> c.log,
        ret |-> Outcome(c, fetch_leaf(w.db, w.node))]

\* Tree::lookup in an environment: `for idx in 0..=254`, then fetch_leaf.
lookup_in(self, key, env) == LookupLeaf(Walk(self, key, Depth - 1, env))

\* Tree::lookup
lookup(self, key) == lookup_in(self, key, Quiet).ret.value

\* The first read of an iteration of prove (lines 158-166): the node is
\* fetched, `node` moves to the child on the path, the sibling is kept.
ProveDescend(self, key, p, idx) ==
    LET c == Call(p, "fetch_branch", p.node, p.db)
        disk_node == fetch_branch(p.db, p.node)
        ch == get_children_hash(self, disk_node, idx)
        b == bit_index(key, idx)
    IN IF c.st # "Run" THEN c
       ELSE [c EXCEPT !.node = IF b THEN ch[1] ELSE ch[2],
                      !.siblings = Append(@, IF b THEN ch[2] ELSE ch[1])]

\* ProveSibling as it would be if it filled a missing sibling with the empty
\* node of the level above it.
ProveSibling_EmptyAbove(self, key, p, idx) ==
    IF p.st # "Run" THEN p ELSE
    LET sibling == p.siblings[Len(p.siblings)]
        c == Call(p, IF idx < Depth - 1 THEN "fetch_branch" ELSE "fetch_leaf",
                  sibling, p.db)
        found == IF idx < Depth - 1 THEN fetch_branch(p.db, sibling)
                 ELSE fetch_leaf(p.db, sibling)
    IN IF c.st # "Run" THEN c
       ELSE [c EXCEPT !.proof = Append(@, IF IsSome(found) THEN Unwrap(found)
                                          ELSE EmptyAt(self, idx))]

\* The second read of an iteration of prove (lines 167-179): the sibling is
\* fetched, as a branch above the last level and as a leaf at it, and it or
\* the empty node of its level is pushed.
ProveSibling(self, key, p, idx) ==
    IF p.st # "Run" THEN p ELSE
    LET sibling == p.siblings[Len(p.siblings)]
        c == Call(p, IF idx < Depth - 1 THEN "fetch_branch" ELSE "fetch_leaf",
                  sibling, p.db)
        found == IF idx < Depth - 1 THEN fetch_branch(p.db, sibling)
                 ELSE fetch_leaf(p.db, sibling)
    IN IF c.st # "Run" THEN c
       ELSE [c EXCEPT !.proof = Append(@, IF IsSome(found) THEN Unwrap(found)
                                          ELSE EmptyAt(self, idx + 1))]

\* One iteration of the loop of prove (lines 158-179).
ProveStep(self, key, p, idx) ==
    ProveSibling(self, key, ProveDescend(self, key, p, idx), idx)

RECURSIVE ProveLoop(_, _, _, _)
\* The state of the loop of prove after its iterations idx = 0 .. n-1.
ProveLoop(self, key, n, env) ==
    IF n = 0 THEN Begin(self, env)
    ELSE ProveStep(self, key, ProveLoop(self, key, n - 1, env), n - 1)

\* prove as it would be with the loop bound of lookup, `0..=254`.
prove_in_Short(self, key, env) ==
    LET p == ProveLoop(self, key, Depth - 1, env)
    IN [database |-> p.db, log |-> p.log, ret |-> Outcome(p, p.proof)]

\* Provable::prove for MSSMTree in an environment, and Proof::new.
prove_in(self, key, env) ==
    LET p == ProveLoop(self, key, Depth, env)
    IN [database |-> p.db, log |-> p.log, ret |-> Outcome(p, p.proof)]

\* Provable::prove for MSSMTree
prove(self, key) == prove_in(self, key, Quiet).ret.value

(***************************************************************************)
(* Proof::verify (proof.rs).  nodes.pop().unwrap() panics on an empty       *)
(* vector; the result is Ok(hash) or a panic.                               *)
(***************************************************************************)
\* One iteration of the loop of verify (lines 55-60).
VerifyStep(key, v, idx) ==
    IF v.panic \/ Len(v.nodes) = 0 THEN [v EXCEPT !.panic = TRUE]
    ELSE LET node == v.nodes[Len(v.nodes)]
         IN [current_node |-> IF bit_index(key, idx)
                              THEN BranchNode_new(v.current_node, node)
                              ELSE BranchNode_new(node, v.current_node),
             nodes |-> SubSeq(v.nodes, 1, Len(v.nodes) - 1),
             panic |-> FALSE]

RECURSIVE VerifyLoop(_, _, _, _)
\* The state of the loop of verify after its iterations Depth-1 down to idx.
VerifyLoop(nodes, target_leaf, key, idx) ==
    IF idx > Depth - 1
    THEN [current_node |-> target_leaf, nodes |-> nodes, panic |-> FALSE]
    ELSE VerifyStep(key, VerifyLoop(nodes, target_leaf, key, idx + 1), idx)

verify(nodes, target_leaf, key) ==
    LET v == VerifyLoop(nodes, target_leaf, key, 0)
    IN IF v.panic THEN Panic ELSE Ok(node_hash(v.current_node))

(***************************************************************************)
(* The prototype tree of primitives/ms_smt.rs: leaves hang as high as      *)
(* their keys allow, a branch owns its two children.                       *)
(***************************************************************************)
\* NodeHash::default(): thirty-two zero bytes.
NodeHash_default == <<0>>

\* Key::bit_index: the bit of the key at position i.
Key_bit_index(key, i) == key[i]

\* The keys of the prototype's tests: only the two lowest bits vary.
ProtoKeys == {k \in Keys : \A i \in 2 .. Depth - 1 : ~Key_bit_index(k, i)}

ProtoData == {NodeHash_default, <<1>>}

\* sha256 of the concatenation of two hashes.
sha256_of(l, r) == <<l, r>>

NodeType_Leaf(key) == <<"Leaf", key>>

NodeType_Branch == <<"Branch">>

is_left(idx, key) == ~Key_bit_index(key, idx)

get_sum(self) ==
    IF self.left # None /\ self.right # None
    THEN Unwrap(self.left).sum + Unwrap(self.right).sum
    ELSE 0

get_left_data(self) ==
    IF self.left # None THEN Unwrap(self.left).data ELSE NodeHash_default

get_right_data(self) ==
    IF self.right # None THEN Unwrap(self.right).data ELSE NodeHash_default

recompute_hash(self) ==
    [self EXCEPT !.sum = get_sum(self),
                 !.data = sha256_of(get_left_data(self), get_right_data(self))]

is_target(self, target) == self.node_type = NodeType_Leaf(target)

RECURSIVE TreeNode_insert(_, _, _, _)
\* TreeNode::insert: the node that stands where self stood.
TreeNode_insert(self, new_node, key, idx) ==
    IF new_node = self THEN self
    ELSE IF is_target(self, key) THEN new_node
    ELSE LET target == IF is_left(idx, key) THEN self.left ELSE self.right
             below == TreeNode_insert(Unwrap(target), new_node, key, idx + 1)
             grown ==
                 IF target # None
                 THEN IF is_left(idx, key)
                      THEN [self EXCEPT !.left = Some(below)]
                      ELSE [self EXCEPT !.right = Some(below)]
                 ELSE IF is_left(idx, key)
                      THEN [node_type |-> NodeType_Branch,
                            data |-> NodeHash_default,
                            sum |-> new_node.sum + self.sum,
                            left |-> Some(new_node), right |-> Some(self)]
                      ELSE [node_type |-> NodeType_Branch,
                            data |-> NodeHash_default,
                            sum |-> new_node.sum + self.sum,
                            left |-> Some(self), right |-> Some(new_node)]
         IN recompute_hash(grown)

RECURSIVE TreeNode_delete(_, _, _)
\* TreeNode::delete: the node that stands where self stood.
TreeNode_delete(self, key, idx) ==
    LET target == IF is_left(idx, key) THEN self.left ELSE self.right
        below == TreeNode_delete(Unwrap(target), key, idx + 1)
        cut ==
            IF target = None THEN self
            ELSE IF is_target(Unwrap(target), key)
                 THEN IF is_left(idx, key) THEN Unwrap(self.right)
                      ELSE Unwrap(self.left)
                 ELSE IF is_left(idx, key)
                      THEN [self EXCEPT !.left = Some(below)]
                      ELSE [self EXCEPT !.right = Some(below)]
    IN recompute_hash(cut)

Tree_new == [root |-> None, leaves |-> 0]

Tree_root_hash(self) ==
    IF self.root # None THEN Unwrap(self.root).data ELSE NodeHash_default

Tree_insert(self, key, data, sum) ==
    LET new_node == [node_type |-> NodeType_Leaf(key), data |-> data,
                     sum |-> sum, left |-> None, right |-> None]
        leaves == self.leaves + 1
    IN IF self.root = None
       THEN [root |-> Some(new_node), leaves |-> leaves]
       ELSE [root |-> Some(TreeNode_insert(Unwrap(self.root), new_node, key, 0)),
             leaves |-> leaves]

Tree_delete(self, key) ==
    IF self.root = None THEN self
    ELSE IF self.leaves = 1 THEN [self EXCEPT !.root = None]
    ELSE [root |-> Some(TreeNode_delete(Unwrap(self.root), key, 0)),
          leaves |-> self.leaves - 1]

\* The prototype tree after Tree::new, before any call.
ProtoInit == [tree |-> Tree_new, kv |-> [k \in ProtoKeys |-> None], nops |-> 0]

(***************************************************************************)
(* The state machine.                                                      *)
(***************************************************************************)
VARIABLES
    database,     \* MemoryDatabase.inner
    root,         \* MSSMTree.root
    empty_tree,   \* MSSMTree.empty_tree
    constructed,  \* whether MSSMTree::new has run
    kv,           \* history: the last settlement of every key
    nops,         \* history: number of mutations so far
    nstore,       \* history: number of raw store calls before construction
    fault,        \* history: the engine call that did not return Ok, if any
    threads,      \* the reading threads: their call, its locals, its result
    proto         \* the prototype primitives::ms_smt::Tree and its history

vars == <<database, root, empty_tree, constructed, kv, nops, nstore, fault,
          threads, proto>>

Self == [database |-> database, root |-> root, empty_tree |-> empty_tree]

\* The threads that read one tree (SpecReaders); a thread that has not
\* called is idle.
Threads == {"t1", "t2"}
Idle == [pc |-> "idle"]

\* What the last mutation of a key leaves for it: delete is insert of the
\* empty leaf, after which the key is not live.
Settle(data, sum) ==
    IF data = <<>> /\ sum = 0 THEN None ELSE Some(LeafNode_new(data, sum))

Publish(t) ==
    /\ database' = t.database
    /\ root' = t.root
    /\ empty_tree' = t.empty_tree

\* The state after MSSMTree::new(MemoryDatabase::new()).  A caller stops
\* using a tree one of whose calls did not return Ok: the mutations below
\* are made while no call has failed.
Init ==
    /\ database = MSSMTree_new(MemoryDatabase_new).database
    /\ root = MSSMTree_new(MemoryDatabase_new).root
    /\ empty_tree = MSSMTree_new(MemoryDatabase_new).empty_tree
    /\ constructed = TRUE
    /\ kv = [k \in Keys |-> None]
    /\ nops = 0
    /\ nstore = 0
    /\ fault = None
    /\ threads = [t \in Threads |-> Idle]
    /\ proto = ProtoInit

Insert ==
    \E key \in Keys, data \in DataVals, sum \in SumVals :
        /\ constructed
        /\ fault = None
        /\ nops < MaxOps
        /\ Publish(insert(Self, key, data, sum).tree)
        /\ kv' = [kv EXCEPT ![key] = Settle(data, sum)]
        /\ nops' = nops + 1
        /\ UNCHANGED <<constructed, nstore, fault, threads, proto>>

Update ==
    \E key \in Keys, data \in DataVals, sum \in SumVals :
        /\ constructed
        /\ fault = None
        /\ nops < MaxOps
        /\ Publish(update(Self, key, data, sum).tree)
        /\ kv' = [kv EXCEPT ![key] = Settle(data, sum)]
        /\ nops' = nops + 1
        /\ UNCHANGED <<constructed, nstore, fault, threads, proto>>

Delete ==
    \E key \in Keys :
        /\ constructed
        /\ fault = None
        /\ nops < MaxOps
        /\ Publish(delete(Self, key).tree)
        /\ kv' = [kv EXCEPT ![key] = None]
        /\ nops' = nops + 1
        /\ UNCHANGED <<constructed, nstore, fault, threads, proto>>

\* lookup and prove take `&self`: root and empty_tree are out of their reach,
\* the store is what their store calls leave.
Lookup ==
    \E key \in Keys :
        /\ constructed
        /\ fault = None
        /\ database' = lookup_in(Self, key, Quiet).database
        /\ UNCHANGED <<root, empty_tree, constructed, kv, nops, nstore, fault, threads, proto>>

Prove ==
    \E key \in Keys :
        /\ constructed
        /\ fault = None
        /\ database' = prove_in(Self, key, Quiet).database
        /\ UNCHANGED <<root, empty_tree, constructed, kv, nops, nstore, fault, threads, proto>>

Next == Insert \/ Update \/ Delete \/ Lookup \/ Prove

Spec == Init /\ [][Next]_vars

(***************************************************************************)
(* SpecFail: the tree over a store whose calls can return an error.  One    *)
(* engine call meets a store that fails at its n-th call of that engine     *)
(* call; the actions below are the engine calls in which the store did      *)
(* fail.  What the call had written before stays in the store.              *)
(***************************************************************************)
\* The most store calls one engine call makes: Depth reads, the leaf write,
\* and a read, a delete and a write in each of the Depth - 1 ascent steps.
MaxCalls == 4 * Depth - 2

FailingStore(n) == [fail_at |-> n, overflow_checks |-> TRUE]

Faulted(op, n, r) ==
    /\ constructed
    /\ fault = None
    /\ nops < MaxOps
    /\ n <= Len(r.log)
    /\ fault' = Some([op |-> op, fail_at |-> n, log |-> r.log, ret |-> r.ret])
    /\ UNCHANGED <<constructed, kv, nops, nstore, threads, proto>>

InsertFails ==
    \E key \in Keys, data \in DataVals, sum \in SumVals, n \in 1 .. MaxCalls :
        LET r == insert_in(Self, key, data, sum, FailingStore(n))
        IN Faulted("insert", n, r) /\ Publish(r.tree)

UpdateFails ==
    \E key \in Keys, data \in DataVals, sum \in SumVals, n \in 1 .. MaxCalls :
        LET r == insert_in(Self, key, data, sum, FailingStore(n))
        IN Faulted("update", n, r) /\ Publish(r.tree)

DeleteFails ==
    \E key \in Keys, n \in 1 .. MaxCalls :
        LET r == insert_in(Self, key, <<>>, 0, FailingStore(n))
        IN Faulted("delete", n, r) /\ Publish(r.tree)

LookupFails ==
    \E key \in Keys, n \in 1 .. MaxCalls :
        LET r == lookup_in(Self, key, FailingStore(n))
        IN /\ Faulted("lookup", n, r)
           /\ database' = r.database
           /\ UNCHANGED <<root, empty_tree>>

ProveFails ==
    \E key \in Keys, n \in 1 .. MaxCalls :
        LET r == prove_in(Self, key, FailingStore(n))
        IN /\ Faulted("prove", n, r)
           /\ database' = r.database
           /\ UNCHANGED <<root, empty_tree>>

NextFail ==
    \/ Next
    \/ InsertFails
    \/ UpdateFails
    \/ DeleteFails
    \/ LookupFails
    \/ ProveFails

SpecFail == Init /\ [][NextFail]_vars

(***************************************************************************)
(* SpecWide: inserts whose sums reach u64::MAX.  An addition that exceeds   *)
(* u64::MAX panics in a build with overflow checks and wraps in a build     *)
(* without them; an insert below is made in either build.  A panic ends     *)
(* the thread in the middle of the call.                                   *)
(***************************************************************************)
WideSums == SumVals \cup {U64_MAX}

Builds == {[fail_at |-> 0, overflow_checks |-> b] : b \in BOOLEAN}

InsertWide ==
    \E key \in Keys, data \in DataVals, sum \in WideSums, env \in Builds :
        LET r == insert_in(Self, key, data, sum, env)
        IN /\ constructed
           /\ fault = None
           /\ nops < MaxOps
           /\ Publish(r.tree)
           /\ IF r.ret = Ok(<<>>)
              THEN /\ kv' = [kv EXCEPT ![key] = Settle(data, sum)]
                   /\ nops' = nops + 1
                   /\ fault' = fault
              ELSE /\ fault' = Some([op |-> "insert", fail_at |-> 0,
                                     log |-> r.log, ret |-> r.ret])
                   /\ UNCHANGED <<kv, nops>>
           /\ UNCHANGED <<constructed, nstore, threads, proto>>

NextWide == InsertWide \/ Lookup \/ Prove

SpecWide == Init /\ [][NextWide]_vars

(***************************************************************************)
(* SpecReaders: threads share one tree, which nothing mutates, and call     *)
(* lookup and prove on it.  A step of a thread is one store read of its     *)
(* call: the read takes the read guard of the RwLock, returns, and the      *)
(* guard is dropped, so the reads of the threads interleave one by one.     *)
(* A thread keeps the locals of its call; the store it reads is the shared  *)
(* one, as it is when the read is made.                                     *)
(***************************************************************************)
\* The keys the trees of SpecReaders hold and the threads ask for: those
\* that differ in their first two bits.
ReaderKeys == {k \in Keys : \A i \in 2 .. Depth - 1 : k[i]}

\* The state after two inserts into the fresh tree.
InitReaders ==
    \E k1 \in ReaderKeys, k2 \in ReaderKeys :
        LET fresh == MSSMTree_new(MemoryDatabase_new)
            tree == insert(insert(fresh, k1, <<1>>, 1).tree, k2, <<1>>, 1).tree
        IN /\ database = tree.database
           /\ root = tree.root
           /\ empty_tree = tree.empty_tree
           /\ constructed = TRUE
           /\ kv = [k \in Keys |-> IF k \in {k1, k2} THEN Settle(<<1>>, 1)
                                   ELSE None]
           /\ nops = 2
           /\ nstore = 0
           /\ fault = None
           /\ threads = [t \in Threads |-> Idle]
           /\ proto = ProtoInit

\* A thread calls lookup or prove.
Start ==
    \E t \in Threads, op \in {"lookup", "prove"}, key \in ReaderKeys :
        /\ threads[t].pc = "idle"
        /\ threads' = [threads EXCEPT ![t] =
                           [pc |-> "run", op |-> op, key |-> key, n |-> 0,
                            c |-> Begin(Self, Quiet), db0 |-> database,
                            ret |-> None]]
        /\ UNCHANGED <<database, root, empty_tree, constructed, kv, nops,
                       nstore, fault, proto>>

\* The next store read of a lookup: one of the Depth - 1 reads of the
\* descent, or the read of the leaf, with which the call returns.
LookupRead ==
    \E t \in Threads :
        LET th == threads[t]
            c0 == [th.c EXCEPT !.db = database]
        IN /\ th.pc = "run"
           /\ th.op = "lookup"
           /\ IF th.n < Depth - 1
              THEN LET c1 == WalkStep(Self, th.key, c0, th.n)
                   IN /\ database' = c1.db
                      /\ threads' = [threads EXCEPT ![t].n = th.n + 1,
                                                    ![t].c = c1]
              ELSE LET r == LookupLeaf(c0)
                   IN /\ database' = r.database
                      /\ threads' = [threads EXCEPT ![t].pc = "done",
                                                    ![t].ret = r.ret]
           /\ UNCHANGED <<root, empty_tree, constructed, kv, nops, nstore,
                          fault, proto>>

\* The next store read of a prove: the two reads of iteration n \div 2, in
\* turn; the call returns after the last one.
ProveRead ==
    \E t \in Threads :
        LET th == threads[t]
            c0 == [th.c EXCEPT !.db = database]
            idx == th.n \div 2
            c1 == IF th.n % 2 = 0 THEN ProveDescend(Self, th.key, c0, idx)
                  ELSE ProveSibling(Self, th.key, c0, idx)
        IN /\ th.pc = "run"
           /\ th.op = "prove"
           /\ database' = c1.db
           /\ IF th.n < 2 * Depth - 1
              THEN threads' = [threads EXCEPT ![t].n = th.n + 1, ![t].c = c1]
              ELSE threads' = [threads EXCEPT ![t].pc = "done",
                                              ![t].c = c1,
                                              ![t].ret = Outcome(c1, c1.proof)]
           /\ UNCHANGED <<root, empty_tree, constructed, kv, nops, nstore,
                          fault, proto>>

NextReaders == Start \/ LookupRead \/ ProveRead

SpecReaders == InitReaders /\ [][NextReaders]_vars

(***************************************************************************)
(* SpecStore: the store is used on its own and is then handed to            *)
(* MSSMTree::new, which takes it by value.  Its behaviours end with the     *)
(* construction of the tree; Spec has the mutations that follow.            *)
(***************************************************************************)
LeafNodes == {LeafNode_new(data, sum) : data \in DataVals, sum \in SumVals}
LeafHashes == {node_hash(l) : l \in LeafNodes}
\* Branches over two leaves, built as test_database builds its branch.
SmallBranches == {BranchNode_owning(l, r) : l \in LeafNodes, r \in LeafNodes}
StoreHashes == LeafHashes \cup {node_hash(b) : b \in SmallBranches}

\* The state after MemoryDatabase::new(), with no tree yet.
InitStore ==
    /\ database = MemoryDatabase_new
    /\ root = None
    /\ empty_tree = <<>>
    /\ constructed = FALSE
    /\ kv = [k \in Keys |-> None]
    /\ nops = 0
    /\ nstore = 0
    /\ fault = None
    /\ threads = [t \in Threads |-> Idle]
    /\ proto = ProtoInit

StoreCall(db) ==
    /\ ~constructed
    /\ nstore < MaxStoreOps
    /\ database' = db
    /\ nstore' = nstore + 1
    /\ UNCHANGED <<root, empty_tree, constructed, kv, nops, fault, threads, proto>>

StoreInsertLeaf == \E leaf \in LeafNodes : StoreCall(insert_leaf(database, leaf))

StoreInsertBranch ==
    \E branch \in SmallBranches : StoreCall(insert_branch(database, branch))

StoreDeleteLeaf == \E hash \in StoreHashes : StoreCall(delete_leaf(database, hash))

StoreDeleteBranch ==
    \E hash \in StoreHashes : StoreCall(delete_branch(database, hash))

New ==
    /\ ~constructed
    /\ Publish(MSSMTree_new(database))
    /\ constructed' = TRUE
    /\ UNCHANGED <<kv, nops, nstore, fault, threads, proto>>

NextStore ==
    \/ StoreInsertLeaf
    \/ StoreInsertBranch
    \/ StoreDeleteLeaf
    \/ StoreDeleteBranch
    \/ New

SpecStore == InitStore /\ [][NextStore]_vars

(***************************************************************************)
(* The prototype tree under inserts and deletes.                           *)
(***************************************************************************)
ProtoInsert ==
    \E key \in ProtoKeys, data \in ProtoData, sum \in SumVals :
        /\ proto.nops < MaxProtoOps
        /\ proto' = [tree |-> Tree_insert(proto.tree, key, data, sum),
                     kv |-> [proto.kv EXCEPT ![key] = Some([data |-> data,
                                                            sum |-> sum])],
                     nops |-> proto.nops + 1]
        /\ UNCHANGED <<database, root, empty_tree, constructed, kv, nops,
                       nstore, fault, threads>>

ProtoDelete ==
    \E key \in ProtoKeys :
        /\ proto.nops < MaxProtoOps
        /\ proto' = [tree |-> Tree_delete(proto.tree, key),
                     kv |-> [proto.kv EXCEPT ![key] = None],
                     nops |-> proto.nops + 1]
        /\ UNCHANGED <<database, root, empty_tree, constructed, kv, nops,
                       nstore, fault, threads>>

NextProto == ProtoInsert \/ ProtoDelete

SpecProto == Init /\ [][NextProto]_vars

(***************************************************************************)
(* The logical tree: the full-depth sum tree over a key -> leaf map.       *)
(***************************************************************************)
\* The key whose bits 0 .. Depth-1 are the elements of a sequence of Depth
\* booleans.
KeyOfPath(path) == [i \in 0 .. Depth - 1 |-> path[i + 1]]

RECURSIVE LogicalNode(_, _)
\* The node of the logical tree reached from the root by `path`: a leaf at
\* depth Depth (the empty leaf where the key is not live), above it the
\* branch over the child selected by bit 1 (left) and by bit 0 (right).
LogicalNode(m, path) ==
    IF Len(path) = Depth
    THEN (IF IsSome(m[KeyOfPath(path)]) THEN Unwrap(m[KeyOfPath(path)])
          ELSE Node_default)
    ELSE BranchNode_new(LogicalNode(m, Append(path, TRUE)),
                        LogicalNode(m, Append(path, FALSE)))

LogicalRoot(m) == node_hash(LogicalNode(m, <<>>))

LiveKeys(m) == {k \in Keys : IsSome(m[k])}

RECURSIVE SumOver(_, _)
SumOver(m, ks) ==
    IF ks = {} THEN 0
    ELSE LET k == CHOOSE x \in ks : TRUE
         IN node_sum(Unwrap(m[k])) + SumOver(m, ks \ {k})

\* The canonical empty hashes E[0 .. Depth]
EmptyHashes == {node_hash(empty_tree[i]) : i \in 1 .. Len(empty_tree)}

\* The sum recorded in the root branch; an empty tree has no root branch.
RootSum ==
    IF IsSome(fetch_branch(database, root))
    THEN node_sum(Unwrap(fetch_branch(database, root)))
    ELSE 0

\* The leaf a verifier is given for a key: the one lookup returns, or the
\* empty leaf.
LeafOrEmpty(self, key) ==
    IF IsSome(lookup(self, key)) THEN Unwrap(lookup(self, key)) ELSE Node_default

RECURSIVE ReachableFrom(_, _, _)
\* The hashes of the stored nodes met within n steps from the hashes hs.
ReachableFrom(db, hs, n) ==
    LET here == hs \cap DOMAIN db
        below == UNION {IF db[h].kind = "Branch" THEN {db[h].left, db[h].right}
                        ELSE {} : h \in here}
    IN IF n = 0 \/ here = {} THEN here
       ELSE here \cup ReachableFrom(db, below, n - 1)

ReachableBranches ==
    {h \in ReachableFrom(database, {root}, Depth + 1) : database[h].kind = "Branch"}

\* The sum a child contributes to its parent: its own sum when it is
\* stored, 0 when it is a canonical empty subtree.
ChildKnown(h) == h \in DOMAIN database \/ h \in EmptyHashes
ChildSum(h) == IF h \in DOMAIN database THEN node_sum(database[h]) ELSE 0

RECURSIVE Replay(_, _, _)
\* The tree obtained from `self` by inserting the live settlements of m in
\* the order of the sequence of keys ks.
Replay(self, m, ks) ==
    IF ks = <<>> THEN self
    ELSE LET k == ks[1]
             l == Unwrap(m[k])
         IN Replay(insert(self, k, l.data, l.sum).tree, m, Tail(ks))

RECURSIVE SeqOfSet(_)
SeqOfSet(ks) ==
    IF ks = {} THEN <<>>
    ELSE LET k == CHOOSE x \in ks : TRUE IN <<k>> \o SeqOfSet(ks \ {k})

\* A second tree: fresh, given each live key's final settlement once.
SecondTree == Replay(MSSMTree_new(MemoryDatabase_new), kv, SeqOfSet(LiveKeys(kv)))

(***************************************************************************)
(* Claims.                                                                 *)
(***************************************************************************)

\* C1: for every key, lookup returns Some(leaf) with the (data, sum) of the
\* most recent insert/update of the key, and None when the key was never
\* inserted or was deleted last.
C1_LookupLastSettlement ==
    constructed => \A k \in Keys : lookup(Self, k) = kv[k]

\* C2: for every key, prove(K).verify(leaf, K) is the current root, where
\* leaf is lookup(K) or else the empty leaf.
C2_ProveVerifyIsRoot ==
    constructed =>
        \A k \in Keys : verify(prove(Self, k), LeafOrEmpty(Self, k), k) = Ok(root)

\* C3: where K is not live, insert(K, d, s) followed by delete(K) leaves the
\* root as it was before the insert.
C3_InsertDeleteRestoresRoot ==
    constructed =>
        \A k \in Keys, data \in DataVals, sum \in SumVals :
            ~IsSome(kv[k]) =>
                delete(insert(Self, k, data, sum).tree, k).tree.root = root

\* C4: after every mutation the root is the hash of the depth-0 node of the
\* logical tree over the current key -> (data, sum) map.
C4_RootIsLogicalRoot == constructed => root = LogicalRoot(kv)

\* C5: the sum recorded in the root branch is the sum of the sums of the
\* live leaves.
C5_RootSumLaw == constructed => RootSum = SumOver(kv, LiveKeys(kv))

\* C6: every branch reachable from the root has sum = sum(left) + sum(right),
\* a leaf child contributing its own sum and an empty child 0.
C6_BranchSumLaw ==
    constructed =>
        \A h \in ReachableBranches :
            (ChildKnown(database[h].left) /\ ChildKnown(database[h].right)) =>
                database[h].sum = ChildSum(database[h].left) + ChildSum(database[h].right)

\* C7: the store holds no node whose hash is a canonical empty hash.
C7_NoEmptyStored == constructed => (DOMAIN database) \cap EmptyHashes = {}

\* C8: two trees that started empty and were left with the same final
\* (data, sum) for every key have the same root.
C8_OrderIndependence == constructed => root = SecondTree.root

\* C9: insert(K, d, s) applied again where K already holds (d, s) leaves the
\* root, the set of stored nodes and lookup(K) as they are.
C9_InsertIdempotent ==
    constructed =>
        \A k \in LiveKeys(kv) :
            LET again == insert(Self, k, Unwrap(kv[k]).data, Unwrap(kv[k]).sum).tree
            IN /\ again.root = root
               /\ again.database = database
               /\ lookup(again, k) = lookup(Self, k)

\* C10: MSSMTree::new(store) sets the root to empty[0] and leaves the store
\* with the contents it had.
C10_NewWritesNothing ==
    [][(~constructed /\ constructed') =>
          (/\ database' = database
           /\ root' = node_hash(empty_tree'[1]))]_vars

\* A tree has been constructed over a store that already held nodes.
C10_Witness == constructed /\ nops = 0 /\ database # MemoryDatabase_new

\* C11: on a freshly constructed tree, for every key, lookup returns None
\* and prove returns a proof whose entry d has the hash of the canonical
\* empty node of level d + 1, for every d in 0 .. Depth-1.
C11_FreshTreeIsEmpty ==
    (constructed /\ nops = 0) =>
        \A k \in Keys :
            LET proof == prove(Self, k)
            IN /\ lookup(Self, k) = None
               /\ \A d \in 0 .. Depth - 1 :
                      node_hash(proof[d + 1]) = node_hash(EmptyAt(Self, d + 1))

\* A tree constructed over the fresh store.
C11_Witness == constructed /\ nops = 0 /\ database = MemoryDatabase_new

\* C12: in every reachable state and for every key, prove returns exactly
\* Depth sibling entries, and verify pops exactly those: its loop ends
\* without a pop from an empty vector and leaves no entry behind.
C12_ProofLength ==
    constructed =>
        \A k \in Keys :
            LET proof == prove(Self, k)
                v == VerifyLoop(proof, LeafOrEmpty(Self, k), k, 0)
            IN /\ Len(proof) = Depth
               /\ ~v.panic
               /\ v.nodes = <<>>

\* A tree after mutations, with a proof that carries a stored node.
C12_Witness ==
    /\ constructed
    /\ nops > 0
    /\ \E k \in Keys : \E d \in 1 .. Depth :
           /\ Len(prove(Self, k)) = Depth
           /\ node_hash(prove(Self, k)[d]) \notin EmptyHashes

\* C13: in every reachable state and for every key, each store call that
\* lookup and prove make is a fetch_branch or a fetch_leaf, and the store
\* after the call is the store before it (root is behind `&self`).
Fetches == {"fetch_branch", "fetch_leaf"}

C13_ReadsOnlyFetch ==
    constructed =>
        \A k \in Keys :
            LET l == lookup_in(Self, k, Quiet)
                p == prove_in(Self, k, Quiet)
            IN /\ \A i \in 1 .. Len(l.log) : l.log[i][1] \in Fetches
               /\ \A i \in 1 .. Len(p.log) : p.log[i][1] \in Fetches
               /\ l.database = database
               /\ p.database = database

\* A tree in which a lookup finds a leaf and so reads a stored node.
C13_Witness ==
    /\ constructed
    /\ \E k \in Keys : /\ IsSome(lookup(Self, k))
                       /\ Len(lookup_in(Self, k, Quiet).log) = Depth
                       /\ Len(prove_in(Self, k, Quiet).log) = 2 * Depth

\* C14: when a store call made by insert, update, delete, lookup or prove
\* returns an error, the engine call returns that error, and the failed
\* store call is the last one it made: no call follows it, and it is not
\* made again.
C14_StoreErrorPropagates ==
    IsSome(fault) =>
        LET f == Unwrap(fault)
        IN /\ f.ret = Err(StoreError)
           /\ Len(f.log) = f.fail_at

\* An insert whose store failed at a write of the ascent, after the leaf had
\* been written.
C14_Witness ==
    /\ IsSome(fault)
    /\ Unwrap(fault).op = "insert"
    /\ Unwrap(fault).fail_at > Depth + 1
    /\ Unwrap(fault).log[Unwrap(fault).fail_at][1] = "insert_branch"

\* C15: an insert in which the sum of a branch would exceed u64::MAX
\* returns the SumOverflow error, and publishes no root: it neither panics
\* nor goes on with the sum taken modulo 2^64.  The sum of a branch exceeds
\* u64::MAX in exactly the calls that panic in the build with overflow
\* checks.
C15_SumOverflowIsError ==
    (constructed /\ fault = None) =>
        \A key \in Keys, data \in DataVals, sum \in WideSums, env \in Builds :
            LET r == insert_in(Self, key, data, sum, env)
                checked == insert_in(Self, key, data, sum,
                                     [fail_at |-> 0, overflow_checks |-> TRUE])
            IN checked.ret = Panic =>
                   /\ r.ret = Err("SumOverflow")
                   /\ r.tree.root = root

\* C16: verify of a proof that does not carry exactly Depth nodes returns
\* an error for the length mismatch: it neither returns a root hash nor
\* panics.  The proofs tried are the one prove returns with its last node
\* left out, and with one more node at its end.
C16_LengthMismatchIsError ==
    constructed =>
        \A k \in Keys :
            LET proof == prove(Self, k)
                short == SubSeq(proof, 1, Depth - 1)
                long == Append(proof, Node_default)
            IN /\ verify(short, LeafOrEmpty(Self, k), k).kind = "Err"
               /\ verify(long, LeafOrEmpty(Self, k), k).kind = "Err"

\* C17: the in-memory store is content addressed.  Every entry is stored
\* under its own hash; after insert_leaf(l), fetch_leaf(l.node_hash())
\* returns a leaf with the hash of l; after insert_branch(b),
\* fetch_branch(b.node_hash()) returns a branch with the hash of b whose
\* l_child and r_child are the hashes of the children of b.
C17_ContentAddressed ==
    /\ \A h \in DOMAIN database : node_hash(database[h]) = h
    /\ \A l \in LeafNodes :
           LET f == fetch_leaf(insert_leaf(database, l), node_hash(l))
           IN IsSome(f) /\ node_hash(Unwrap(f)) = node_hash(l)
    /\ \A b \in SmallBranches :
           LET f == fetch_branch(insert_branch(database, b), node_hash(b))
           IN /\ IsSome(f)
              /\ node_hash(Unwrap(f)) = node_hash(b)
              /\ l_child(Unwrap(f)) = node_hash(b.left)
              /\ r_child(Unwrap(f)) = node_hash(b.right)

\* A store into which a leaf and a branch have been inserted.
C17_Witness ==
    /\ nstore > 0
    /\ \E h \in DOMAIN database : database[h].kind = "Leaf"
    /\ \E h \in DOMAIN database : database[h].kind = "Branch"

\* C18: in every store state and for every hash, fetch_leaf and
\* fetch_branch return Ok(Some(node)) when an entry of the requested type
\* is stored under the hash, and Ok(None), not an error, when the hash is
\* absent or the entry under it is of the other type.
C18_FetchIsTyped ==
    \A h \in StoreHashes \cup DOMAIN database :
        /\ TreeStore_fetch_leaf(database, h) =
               IF h \in DOMAIN database /\ database[h].kind = "Leaf"
               THEN Ok(Some(database[h])) ELSE Ok(None)
        /\ TreeStore_fetch_branch(database, h) =
               IF h \in DOMAIN database /\ database[h].kind = "Branch"
               THEN Ok(Some(database[h])) ELSE Ok(None)

\* A store that holds a leaf and a branch, and lacks some hash.
C18_Witness ==
    /\ \E h \in DOMAIN database : database[h].kind = "Leaf"
    /\ \E h \in DOMAIN database : database[h].kind = "Branch"
    /\ \E h \in StoreHashes : h \notin DOMAIN database
    /\ ~constructed

\* C20: the table built by MSSMTree::new has exactly Depth + 1 entries;
\* its entry Depth has the hash of the leaf with empty data and sum 0; its
\* entry at every level from Depth - 1 down to 0 has the hash of the branch
\* with sum 0 over two copies of the entry of the level below; the root of
\* the new tree is the hash of entry 0.
C20_EmptyTable ==
    [][(~constructed /\ constructed') =>
           /\ Len(empty_tree') = Depth + 1
           /\ node_hash(empty_tree'[Depth + 1]) = node_hash(LeafNode_new(<<>>, 0))
           /\ \A level \in 0 .. Depth - 1 :
                  node_hash(empty_tree'[level + 1]) =
                      parent_hash(node_hash(empty_tree'[level + 2]),
                                  node_hash(empty_tree'[level + 2]), 0)
           /\ root' = node_hash(empty_tree'[1])]_vars

\* A tree has been constructed over a store that was used before.
C20_Witness == constructed /\ nstore > 0 /\ Len(empty_tree) > 0

\* C19: when threads call lookup and prove on one tree that nothing
\* mutates, their store reads interleaved one by one, every call returns
\* what the same call returns when it is made alone on that tree, and the
\* store stays as it was when the call began.
C19_ConcurrentReads ==
    \A t \in Threads :
        threads[t].pc # "idle" =>
            LET th == threads[t]
                tree0 == [database |-> th.db0, root |-> root,
                          empty_tree |-> empty_tree]
            IN /\ database = th.db0
               /\ th.pc = "done" =>
                      th.ret = IF th.op = "lookup"
                               THEN lookup_in(tree0, th.key, Quiet).ret
                               ELSE prove_in(tree0, th.key, Quiet).ret

\* A lookup has returned a leaf while the prove of another thread is past
\* its first reads and has not returned.
C19_Witness ==
    \E t \in Threads, u \in Threads :
        /\ threads[t].pc = "done"
        /\ threads[t].op = "lookup"
        /\ threads[t].ret.kind = "Ok"
        /\ IsSome(threads[t].ret.value)
        /\ threads[u].pc = "run"
        /\ threads[u].op = "prove"
        /\ threads[u].n > 2

(***************************************************************************)
(* The prototype tree against its history.                                 *)
(***************************************************************************)
RECURSIVE ProtoLeaves(_)
\* The leaves below a node of the prototype tree, left to right.
ProtoLeaves(node) ==
    IF node.left = None /\ node.right = None THEN <<node>>
    ELSE (IF node.left = None THEN <<>> ELSE ProtoLeaves(Unwrap(node.left)))
         \o (IF node.right = None THEN <<>> ELSE ProtoLeaves(Unwrap(node.right)))

RECURSIVE ProtoSumOf(_)
ProtoSumOf(leaves) ==
    IF leaves = <<>> THEN 0 ELSE Head(leaves).sum + ProtoSumOf(Tail(leaves))

ProtoLive == {k \in ProtoKeys : proto.kv[k] # None}

\* C21: once every key that was inserted has been deleted again, the root
\* hash of the prototype tree is the all-zero default hash.
C21_EmptiedTreeHasZeroRoot ==
    (proto.nops > 0 /\ ProtoLive = {})
        => Tree_root_hash(proto.tree) = NodeHash_default

\* C22: the sum of the prototype's root is the total of the sums of the
\* leaves in the tree, and every leaf in the tree carries the key, data and
\* sum of an insert that no delete has undone.
C22_RootSumAndLeavesKept ==
    proto.tree.root # None =>
        LET leaves == ProtoLeaves(Unwrap(proto.tree.root))
        IN /\ Unwrap(proto.tree.root).sum = ProtoSumOf(leaves)
           /\ \A i \in 1 .. Len(leaves) :
                  \E k \in ProtoLive :
                      /\ leaves[i].node_type = NodeType_Leaf(k)
                      /\ leaves[i].data = Unwrap(proto.kv[k]).data
                      /\ leaves[i].sum = Unwrap(proto.kv[k]).sum

(***************************************************************************)
(* The store calls of one insert.                                          *)
(***************************************************************************)
\* The names of the store calls of a log, in order.
CallNames(log) == [i \in 1 .. Len(log) |-> log[i][1]]

LeafWrites == {"insert_leaf", "delete_leaf"}

\* The calls of a log from the n-th on.
From(names, n) == SubSeq(names, n, Len(names))

RECURSIVE AscentLevels(_)
\* The number of ascent levels a sequence of call names splits into, each a
\* fetch_branch, then at most one delete_branch, then at most one
\* insert_branch; -1 when it does not split so.
AscentLevels(names) ==
    IF names = <<>> THEN 0
    ELSE IF Head(names) # "fetch_branch" THEN -1
    ELSE LET r1 == Tail(names)
             r2 == IF r1 # <<>> /\ Head(r1) = "delete_branch" THEN Tail(r1)
                   ELSE r1
             r3 == IF r2 # <<>> /\ Head(r2) = "insert_branch" THEN Tail(r2)
                   ELSE r2
             n == AscentLevels(r3)
         IN IF n < 0 THEN -1 ELSE n + 1

\* A log that begins with the Depth reads of the descent and the leaf write.
DescentThenLeaf(names) ==
    /\ Len(names) > Depth
    /\ \A i \in 1 .. Depth : names[i] = "fetch_branch"
    /\ names[Depth + 1] \in LeafWrites

\* C23 as stated: an insert makes its descent reads, then the one leaf
\* write, and from then on only, level by level, the delete of the old
\* branch and after it the insert of the new one.
C23_ReadsLeafThenWrites ==
    constructed =>
        \A k \in Keys, data \in DataVals, sum \in SumVals :
            LET names == CallNames(insert_in(Self, k, data, sum, Quiet).log)
            IN /\ DescentThenLeaf(names)
               /\ \A i \in Depth + 2 .. Len(names) :
                      names[i] \in {"delete_branch", "insert_branch"}

\* C23 as amended: an insert makes its descent reads, then the one leaf
\* write, and then level by level the read of the sibling branch, at most
\* one delete_branch and after it at most one insert_branch.
C23_ReadsLeafThenLevels ==
    constructed =>
        \A k \in Keys, data \in DataVals, sum \in SumVals :
            LET names == CallNames(insert_in(Self, k, data, sum, Quiet).log)
            IN /\ DescentThenLeaf(names)
               /\ AscentLevels(From(names, Depth + 2)) >= 0

\* A tree on which an insert deletes an old branch and writes a new one at
\* the same level.
C23_Witness ==
    /\ constructed
    /\ nops > 0
    /\ \E k \in Keys, data \in DataVals, sum \in SumVals :
           LET names == CallNames(insert_in(Self, k, data, sum, Quiet).log)
           IN \E i \in Depth + 2 .. Len(names) - 2 :
                  /\ names[i] = "fetch_branch"
                  /\ names[i + 1] = "delete_branch"
                  /\ names[i + 2] = "insert_branch"

\* C24: every insert, update and delete makes exactly Depth descent steps
\* and exactly Depth ascent steps, one per depth from Depth-1 down to 0, so
\* that the branch it publishes as root is the one built at depth 0.
C24_FullDescentAndAscent ==
    constructed =>
        \A k \in Keys, data \in DataVals, sum \in SumVals :
            LET names == CallNames(insert_in(Self, k, data, sum, Quiet).log)
            IN /\ DescentThenLeaf(names)
               /\ AscentLevels(From(names, Depth + 2)) = Depth

\* The on-path node an insert leaves below depth d: the leaf for d = Depth,
\* above it the branch its ascent builds in iteration d.
Placed(self, key, data, sum, d) ==
    node_hash(Ascent(self, key,
                     InsertLeafWrite(self, LeafNode_new(data, sum),
                                     Walk(self, key, Depth, Quiet)),
                     d).current_update)

\* C25: the slot in which the ascent of insert places the on-path node
\* under a parent it builds is the slot that a descent for the same key
\* (of insert and lookup, and of prove) follows from that parent, and the
\* one in which verify rebuilds it.
C25_RoutingBitConsistent ==
    constructed =>
        \A k \in Keys, data \in DataVals \ {<<>>}, sum \in SumVals :
            LET after == insert(Self, k, data, sum).tree
                proof == prove(after, k)
                leaf == LeafNode_new(data, sum)
            IN \A d \in AscentLast .. Depth - 1, j \in 0 .. Depth - 1 :
                   /\ Walk(after, k, j, Quiet).node = Placed(Self, k, data, sum, d)
                          => Walk(after, k, j + 1, Quiet).node
                                 = Placed(Self, k, data, sum, d + 1)
                   /\ ProveLoop(after, k, j, Quiet).node
                              = Placed(Self, k, data, sum, d)
                          => ProveLoop(after, k, j + 1, Quiet).node
                                 = Placed(Self, k, data, sum, d + 1)
                   /\ node_hash(VerifyLoop(proof, leaf, k, d).current_node)
                          = Placed(Self, k, data, sum, d)

\* The hashes that iteration d of the ascent of an insert passes to
\* delete_branch.
DeletedAt(self, key, data, sum, d) ==
    LET w == InsertLeafWrite(self, LeafNode_new(data, sum),
                             Walk(self, key, Depth, Quiet))
        a == Ascent(self, key, w, d + 1)
        b == AscentStep(self, key, a, d)
    IN {b.log[i][2] : i \in {j \in Len(a.log) + 1 .. Len(b.log) :
                                 b.log[j][1] = "delete_branch"}}

\* C26: at depth d the ascent passes parents[d] to delete_branch, and does
\* so exactly when parents[d] is not the canonical empty hash of depth d;
\* no canonical empty hash is passed to delete_branch.
C26_DeletesOldBranchOnly ==
    constructed =>
        \A k \in Keys, data \in DataVals, sum \in SumVals :
            LET parents == Walk(Self, k, Depth, Quiet).parents
            IN \A d \in AscentLast .. Depth - 1 :
                   /\ DeletedAt(Self, k, data, sum, d)
                          = IF parents[d + 1] # node_hash(EmptyAt(Self, d))
                            THEN {parents[d + 1]} ELSE {}
                   /\ DeletedAt(Self, k, data, sum, d) \cap EmptyHashes = {}

\* The off-path child hash of the on-path node at depth d of the walk of
\* prove for a key.
OffPath(self, key, d) ==
    LET p == ProveDescend(self, key, ProveLoop(self, key, d, Quiet), d)
    IN p.siblings[Len(p.siblings)]

\* C27: entry d of prove(K) is the sibling of the on-path node at depth d:
\* its hash is the off-path child hash of the on-path branch at depth d, and
\* it is the empty node of depth d+1 exactly when that child is empty.
C27_ProofEntriesAreSiblings ==
    constructed =>
        \A k \in Keys :
            LET proof == prove(Self, k)
            IN \A d \in 0 .. Depth - 1 :
                   /\ node_hash(proof[d + 1]) = OffPath(Self, k, d)
                   /\ (proof[d + 1] = EmptyAt(Self, d + 1))
                          <=> (OffPath(Self, k, d) \in EmptyHashes)

\* C28: an insert, update or delete of a key K, also a delete of a key that
\* was never inserted, leaves lookup(K') as it was for every other key K'.
C28_OtherKeysUndisturbed ==
    constructed =>
        \A k \in Keys, data \in DataVals, sum \in SumVals :
            LET after == insert(Self, k, data, sum).tree
            IN \A other \in Keys \ {k} : lookup(after, other) = lookup(Self, other)

RECURSIVE Resolves(_, _)
\* Whether the hash h, met at depth d of a walk from the root, and every
\* hash below it resolves: it is a canonical empty hash, or the hash of a
\* stored leaf at the bottom level and of a stored branch above it.
Resolves(h, d) ==
    IF h \in EmptyHashes THEN TRUE
    ELSE IF d = Depth THEN IsSome(fetch_leaf(database, h))
    ELSE /\ IsSome(fetch_branch(database, h))
         /\ Resolves(l_child(Unwrap(fetch_branch(database, h))), d + 1)
         /\ Resolves(r_child(Unwrap(fetch_branch(database, h))), d + 1)

\* C29: after any sequence of successful mutations every hash reachable
\* from the root resolves, so that a walk from the root to a leaf never
\* meets a dangling hash.
C29_NoDanglingHash == constructed => Resolves(root, 0)

Mutations == {"insert", "update", "delete"}

\* C30: an insert, update or delete that returns a store error leaves the
\* root field with the value it had before the call; a step that changes
\* the root is a call all of whose store calls succeeded.
C30_ErrorKeepsRoot ==
    [][/\ (fault = None /\ IsSome(fault') /\ Unwrap(fault').op \in Mutations)
           => (Unwrap(fault').ret = Err(StoreError) /\ root' = root)
       /\ root' # root => fault' = None]_vars

\* An update on a tree that holds a key, whose store failed at a write of
\* the ascent after the leaf and a first branch had been written.
C30_Witness ==
    /\ IsSome(fault)
    /\ nops > 0
    /\ root # MSSMTree_new(MemoryDatabase_new).root
    /\ Unwrap(fault).op = "update"
    /\ Unwrap(fault).ret = Err(StoreError)
    /\ \E i \in Depth + 2 .. Unwrap(fault).fail_at - 1 :
           Unwrap(fault).log[i][1] = "insert_branch"

\* The leaves of a prototype tree, left to right.
ProtoLeavesOf(tree) ==
    IF tree.root = None THEN <<>> ELSE ProtoLeaves(Unwrap(tree.root))

\* The keys of the leaves of a prototype tree.
ProtoKeysIn(tree) ==
    {k \in ProtoKeys :
         \E i \in 1 .. Len(ProtoLeavesOf(tree)) :
             ProtoLeavesOf(tree)[i].node_type = NodeType_Leaf(k)}

\* C31: in the prototype tree, delete(K) for a key K that has no leaf in
\* the tree changes nothing: the root hash, the keys in the tree and the
\* data and sum of every leaf are as before the call.
C31_DeleteAbsentChangesNothing ==
    \A k \in ProtoKeys \ ProtoKeysIn(proto.tree) :
        LET after == Tree_delete(proto.tree, k)
        IN /\ Tree_root_hash(after) = Tree_root_hash(proto.tree)
           /\ ProtoKeysIn(after) = ProtoKeysIn(proto.tree)
           /\ ProtoLeavesOf(after) = ProtoLeavesOf(proto.tree)

====
